---- MODULE Spec2Model ----
(***************************************************************************)
(* A model of the copy-on-write core of unionfs-fuse: the branch-relative  *)
(* filesystem wrappers (branch_ops.c), the whiteout store (general.c) and  *)
(* the COW engine (cow.c, cow_utils.c).                                    *)
(*                                                                         *)
(* Path names are sequences of one-character strings, so that the code's   *)
(* character walks (path_hidden, path_create, relative) and its length     *)
(* accounting (va_build_path) are computed the way the code computes them. *)
(* A branch is a tree: a function from keys (sequences of path components) *)
(* to nodes.  The kernel checks permissions for chown and mknod only; a    *)
(* failure of a system call for an outside reason is an injected fault.    *)
(*                                                                         *)
(* A C function that changes the file system is an operator from a world W *)
(* to a record [w |-> the world after, res |-> the value returned].  The   *)
(* statements of a function are chained with                               *)
(*     The({ <rest of the function> : x \in {<call>} })                     *)
(* which reads "let x be the result of <call> in <rest of the function>"   *)
(* and evaluates <call> once.                                              *)
(***************************************************************************)
EXTENDS Integers, Sequences, FiniteSets, TLC

VARIABLES
    fs,           \* fs[b]: the tree below the root of branch b
    cow_enabled,  \* uopt.cow_enabled
    at_family,    \* TRUE: built with HAVE_AT_FAMILY (handle backend)
    proc,         \* process attributes: uid, gid, umask
    hid,          \* history: <<path, branch>> hidden with success and not removed since
    last          \* the last call: its arguments, result and system-call log

vars == <<fs, cow_enabled, at_family, proc, hid, last>>

----------------------------------------------------------------------------
(* Bounds and constants *)

NBranches == 3            \* uopt.nbranches
MAXBSIZE == 2             \* scaled stand-in for MAXBSIZE (4096)
MmapLimit == 4            \* scaled stand-in for 8 * 1048576
PATHLEN_MAX == 10         \* scaled stand-in for PATHLEN_MAX (4096)
MaxCalls == 2             \* calls into the COW engine in one run
ENAMETOOLONG == 36
Now == 9                  \* the clock value a newly created node gets

Branches == 0 .. (NBranches - 1)
RWBranches == {0, 1}      \* branches mounted read-write
ROBranches == Branches \ RWBranches

Slash == "/"
METADIR == <<"m", "/">>   \* stands for ".unionfs/"
HIDETAG == <<"~">>        \* stands for "_HIDDEN~"
RootPath == <<"/", "r", "/">>   \* uopt.branches[b].path, same length for every branch

S_IRWXU == {"U"}
S_IRWXG == {"G"}
S_IRWXO == {"O"}
S_ISUID == {"suid"}
S_ISGID == {"sgid"}
S_ISVTX == {"svtx"}

----------------------------------------------------------------------------
(* Strings *)

The(S) == CHOOSE r \in S : TRUE

RECURSIVE SkipSlashes(_, _)
\* while (*walk != '\0' && *walk == '/') walk++;
SkipSlashes(s, i) ==
    IF i <= Len(s) /\ s[i] = Slash THEN SkipSlashes(s, i + 1) ELSE i

RECURSIVE SkipName(_, _)
\* while (*walk != '\0' && *walk != '/') walk++;
SkipName(s, i) ==
    IF i <= Len(s) /\ s[i] # Slash THEN SkipName(s, i + 1) ELSE i

RECURSIVE SplitFrom(_, _)
SplitFrom(s, i) ==
    The({ IF j > Len(s) THEN <<>>
          ELSE The({ <<SubSeq(s, j, k - 1)>> \o SplitFrom(s, k) : k \in {SkipName(s, j)} })
        : j \in {SkipSlashes(s, i)} })

\* the kernel's decomposition of a path name into components; "." is skipped
Components(s) == SelectSeq(SplitFrom(s, 1), LAMBDA c : c # <<".">>)

TrailingSlash(s) == Len(s) > 0 /\ s[Len(s)] = Slash

\* const char *relative(const char *path)
relative(path) ==
    The({ IF j > Len(path) THEN <<".">> ELSE SubSeq(path, j, Len(path))
        : j \in {SkipSlashes(path, 1)} })

\* char *u_dirname(const char *path): cut at the last '/', "." without one
u_dirname(path) ==
    The({ IF slashes = {} THEN <<".">>
          ELSE SubSeq(path, 1, (CHOOSE i \in slashes : \A j \in slashes : j <= i) - 1)
        : slashes \in {{i \in 1 .. Len(path) : path[i] = Slash}} })

----------------------------------------------------------------------------
(* Path construction *)

RECURSIVE va_append_late(_, _, _)
\* the loop of va_build_path with the test "space < 0"
va_append_late(p, space, parts) ==
    IF parts = <<>> THEN [res |-> 0, path |-> p]
    ELSE The({ IF sp < 0
               THEN [res |-> -ENAMETOOLONG, path |-> p]
               ELSE The({ va_append_late(q, sp, Tail(parts)) : q \in {p \o Head(parts)} })
             : sp \in {space - Len(Head(parts))} })

RECURSIVE va_append(_, _, _)
va_append(p, space, parts) ==
    IF parts = <<>> THEN [res |-> 0, path |-> p]
    ELSE The({ IF sp <= 0    \* must have space for '\0' terminator
               THEN [res |-> -ENAMETOOLONG, path |-> p]
               ELSE The({ va_append(q, sp, Tail(parts)) : q \in {p \o Head(parts)} })
             : sp \in {space - Len(Head(parts))} })

\* int va_build_path(char *path, int space, int branch, va_list ap)
va_build_path(space, branch, parts) ==
    IF at_family
    THEN va_append(<<>>, space, parts)
    ELSE va_append(RootPath, space - Len(RootPath), parts)

\* int build_path(char *dest, int max_len, ...)
build_path(max_len, parts) == va_append(<<>>, max_len, parts)

\* the key, below the branch root, of the path name given to the system call
BranchKey(built) ==
    IF at_family THEN Components(relative(built))
    ELSE Components(SubSeq(built, Len(RootPath) + 1, Len(built)))

----------------------------------------------------------------------------
(* The kernel: trees, nodes and system calls.  W is the world a call runs  *)
(* in: the trees, the log of system calls issued, the injected fault,      *)
(* whether the process has crashed, and the descriptors that are open.     *)

NoStat == [type |-> "none", mode |-> {}, uid |-> 0, gid |-> 0, mtime |-> 0, data |-> <<>>]
NoFault == [op |-> "none", branch |-> 0, key |-> <<>>]

Node(type, mode, uid, gid, mtime, data) ==
    [type |-> type, mode |-> mode, uid |-> uid, gid |-> gid, mtime |-> mtime, data |-> data]

World(f, fault) ==
    [fs |-> f, log |-> <<>>, fault |-> fault, crashed |-> FALSE, open |-> {}]

Issue(W, op, branch, key) ==
    [W EXCEPT !.log = Append(@, [op |-> op, branch |-> branch, key |-> key])]

Faulted(W, op, branch, key) == W.fault = [op |-> op, branch |-> branch, key |-> key]

Exists(W, branch, key) == key \in DOMAIN W.fs[branch]
IsDir(W, branch, key) == Exists(W, branch, key) /\ W.fs[branch][key].type = "dir"
Front(key) == SubSeq(key, 1, Len(key) - 1)
ParentOk(W, branch, key) == key # <<>> /\ IsDir(W, branch, Front(key))

Put(W, branch, key, node) ==
    [W EXCEPT !.fs[branch] =
        [k \in (DOMAIN @) \cup {key} |-> IF k = key THEN node ELSE @[k]]]

Del(W, branch, key) ==
    [W EXCEPT !.fs[branch] = [k \in (DOMAIN @) \ {key} |-> @[k]]]

HasChild(W, branch, key) ==
    \E k \in DOMAIN W.fs[branch] : Len(k) = Len(key) + 1 /\ Front(k) = key

\* a system call that only fails: it is issued and changes nothing
Failed(W, op, branch, key, res) == [w |-> Issue(W, op, branch, key), res |-> res]

\* a system call that puts node at key
Done(W, op, branch, key, node, res) ==
    [w |-> Put(Issue(W, op, branch, key), branch, key, node), res |-> res]

\* lstat(2) / fstatat(2)
K_lstat(W, branch, path) ==
    The({ IF /\ ~Faulted(W, "lstat", branch, key)
             /\ Exists(W, branch, key)
             /\ (TrailingSlash(path) => IsDir(W, branch, key))
          THEN [w |-> Issue(W, "lstat", branch, key), res |-> 0, st |-> W.fs[branch][key]]
          ELSE [w |-> Issue(W, "lstat", branch, key), res |-> -1, st |-> NoStat]
        : key \in {BranchKey(path)} })

\* mkdir(2) / mkdirat(2)
K_mkdir(W, mode, branch, path) ==
    The({ IF /\ ~Faulted(W, "mkdir", branch, key)
             /\ ~Exists(W, branch, key)
             /\ ParentOk(W, branch, key)
          THEN Done(W, "mkdir", branch, key,
                    Node("dir", mode \ proc.umask, proc.uid, proc.gid, Now, <<>>), 0)
          ELSE Failed(W, "mkdir", branch, key, -1)
        : key \in {BranchKey(path)} })

\* the lowest descriptor that is free
NewFd(W) ==
    CHOOSE n \in 3 .. (3 + Cardinality(W.open)) :
        /\ \A o \in W.open : o.fd # n
        /\ \A m \in 3 .. (n - 1) : \E o \in W.open : o.fd = m

\* the open file description of a descriptor
IsOpen(W, fd) == \E o \in W.open : o.fd = fd
Fd(W, fd) == CHOOSE o \in W.open : o.fd = fd

\* a descriptor on the node at key is handed out
Opened(W, branch, key) ==
    [w   |-> [W EXCEPT !.open = @ \cup {[fd |-> NewFd(W), branch |-> branch,
                                         key |-> key, pos |-> 0]}],
     res |-> NewFd(W)]

\* open(2) / openat(2) with O_WRONLY | O_CREAT (trunc: with O_TRUNC too)
K_open_creat(W, trunc, mode, branch, path) ==
    The({ IF Faulted(W, "open_creat", branch, key) \/ TrailingSlash(path)
          THEN Failed(W, "open_creat", branch, key, -1)
          ELSE IF Exists(W, branch, key)
          THEN IF W.fs[branch][key].type # "reg"
               THEN Failed(W, "open_creat", branch, key, -1)
               ELSE IF trunc
               THEN Opened(Put(Issue(W, "open_creat", branch, key), branch, key,
                               [W.fs[branch][key] EXCEPT !.data = <<>>, !.mtime = Now]),
                           branch, key)
               ELSE Opened(Issue(W, "open_creat", branch, key), branch, key)
          ELSE IF ParentOk(W, branch, key)
          THEN Opened(Put(Issue(W, "open_creat", branch, key), branch, key,
                          Node("reg", mode \ proc.umask, proc.uid, proc.gid, Now, <<>>)),
                      branch, key)
          ELSE Failed(W, "open_creat", branch, key, -1)
        : key \in {BranchKey(path)} })

\* open(2) / openat(2) with O_RDONLY
K_open_rdonly(W, branch, path) ==
    The({ IF /\ ~Faulted(W, "open", branch, key)
             /\ Exists(W, branch, key)
             /\ W.fs[branch][key].type \in {"reg", "dir"}
             /\ (TrailingSlash(path) => IsDir(W, branch, key))
          THEN Opened(Issue(W, "open", branch, key), branch, key)
          ELSE Failed(W, "open", branch, key, -1)
        : key \in {BranchKey(path)} })

\* unlink(2) / unlinkat(2)
K_unlink(W, branch, path) ==
    The({ IF /\ ~Faulted(W, "unlink", branch, key)
             /\ Exists(W, branch, key)
             /\ ~IsDir(W, branch, key)
             /\ ~TrailingSlash(path)
          THEN [w |-> Del(Issue(W, "unlink", branch, key), branch, key), res |-> 0]
          ELSE Failed(W, "unlink", branch, key, -1)
        : key \in {BranchKey(path)} })

\* rmdir(2) / unlinkat(2) with AT_REMOVEDIR
K_rmdir(W, branch, path) ==
    The({ IF /\ ~Faulted(W, "rmdir", branch, key)
             /\ key # <<>>
             /\ IsDir(W, branch, key)
             /\ ~HasChild(W, branch, key)
          THEN [w |-> Del(Issue(W, "rmdir", branch, key), branch, key), res |-> 0]
          ELSE Failed(W, "rmdir", branch, key, -1)
        : key \in {BranchKey(path)} })

\* close(2): EBADF for a descriptor that is not open; the descriptor is
\* released even when close reports an error
K_close(W, fd) ==
    IF ~IsOpen(W, fd) THEN [w |-> W, res |-> -1]
    ELSE The({ [w   |-> [Issue(W, "close", o.branch, o.key) EXCEPT !.open = @ \ {o}],
                res |-> IF Faulted(W, "close", o.branch, o.key) THEN -1 ELSE 0]
             : o \in {Fd(W, fd)} })

\* utimensat(2) with AT_SYMLINK_NOFOLLOW, or utimes(2), which follows a
\* symbolic link: ENOENT (-2) without the node, and on a link the code ignores it
K_utimens(W, mtime, branch, path) ==
    The({ IF Faulted(W, "utimens", branch, key) THEN Failed(W, "utimens", branch, key, -1)
          ELSE IF ~Exists(W, branch, key)
          THEN Failed(W, "utimens", branch, key, IF at_family THEN -1 ELSE -2)
          ELSE IF ~at_family /\ W.fs[branch][key].type = "lnk"
          THEN Failed(W, "utimens", branch, key, 0)
          ELSE Done(W, "utimens", branch, key,
                    [W.fs[branch][key] EXCEPT !.mtime = mtime], 0)
        : key \in {BranchKey(path)} })

\* chown(2): only root may give a file away; the owner may keep it
ChownPermitted(node, uid, gid) ==
    \/ proc.uid = 0
    \/ (node.uid = proc.uid /\ uid = proc.uid /\ gid = proc.gid)

\* chown(2) / lchown(2) / fchownat(2)
K_chown(W, op, uid, gid, branch, path) ==
    The({ IF Faulted(W, op, branch, key)
          THEN [w |-> Issue(W, op, branch, key), res |-> -1, errno |-> "EIO"]
          ELSE IF ~Exists(W, branch, key)
          THEN [w |-> Issue(W, op, branch, key), res |-> -1, errno |-> "ENOENT"]
          ELSE IF ~ChownPermitted(W.fs[branch][key], uid, gid)
          THEN [w |-> Issue(W, op, branch, key), res |-> -1, errno |-> "EPERM"]
          ELSE [w |-> Put(Issue(W, op, branch, key), branch, key,
                          [W.fs[branch][key] EXCEPT !.uid = uid, !.gid = gid]),
                res |-> 0, errno |-> "none"]
        : key \in {BranchKey(path)} })

\* chmod(2) / fchmodat(2)
K_chmod(W, mode, branch, path) ==
    The({ IF Faulted(W, "chmod", branch, key) \/ ~Exists(W, branch, key)
          THEN Failed(W, "chmod", branch, key, -1)
          ELSE Done(W, "chmod", branch, key, [W.fs[branch][key] EXCEPT !.mode = mode], 0)
        : key \in {BranchKey(path)} })

\* read(2) of at most n bytes at the position of the descriptor
K_read(W, fd, n) ==
    IF ~IsOpen(W, fd) THEN [w |-> W, res |-> -1, buf |-> <<>>]    \* EBADF
    ELSE
    The({ IF Faulted(W, "read", o.branch, o.key)
          THEN [w |-> Issue(W, "read", o.branch, o.key), res |-> -1, buf |-> <<>>]
          ELSE The({ [w   |-> [Issue(W, "read", o.branch, o.key) EXCEPT
                                  !.open = (@ \ {o}) \cup {[o EXCEPT !.pos = @ + Len(chunk)]}],
                      res |-> Len(chunk),
                      buf |-> chunk]
                   : chunk \in {SubSeq(W.fs[o.branch][o.key].data, o.pos + 1,
                                       IF o.pos + n < Len(W.fs[o.branch][o.key].data)
                                       THEN o.pos + n
                                       ELSE Len(W.fs[o.branch][o.key].data))} })
        : o \in {Fd(W, fd)} })

\* write(2) of bytes at the position of the descriptor
K_write(W, fd, bytes) ==
    IF ~IsOpen(W, fd) THEN [w |-> W, res |-> -1]    \* EBADF
    ELSE
    The({ IF Faulted(W, "write", o.branch, o.key)
          THEN Failed(W, "write", o.branch, o.key, -1)
          ELSE [w   |-> [Put(Issue(W, "write", o.branch, o.key), o.branch, o.key,
                             [W.fs[o.branch][o.key] EXCEPT
                                 !.data = SubSeq(@, 1, o.pos) \o bytes
                                          \o SubSeq(@, o.pos + Len(bytes) + 1, Len(@)),
                                 !.mtime = Now])
                            EXCEPT !.open = (@ \ {o}) \cup {[o EXCEPT !.pos = @ + Len(bytes)]}],
                res |-> Len(bytes)]
        : o \in {Fd(W, fd)} })

\* mmap(2) of the first size bytes of the file, read-only; res -1 is MAP_FAILED
K_mmap(W, fd, size) ==
    IF ~IsOpen(W, fd) THEN [w |-> W, res |-> -1, map |-> <<>>]    \* EBADF
    ELSE
    The({ IF Faulted(W, "mmap", o.branch, o.key)
          THEN [w |-> Issue(W, "mmap", o.branch, o.key), res |-> -1, map |-> <<>>]
          ELSE [w |-> Issue(W, "mmap", o.branch, o.key), res |-> 0,
                map |-> SubSeq(W.fs[o.branch][o.key].data, 1, size)]
        : o \in {Fd(W, fd)} })

\* munmap(2)
K_munmap(W, fd) ==
    IF ~IsOpen(W, fd) THEN [w |-> W, res |-> -1]    \* EBADF
    ELSE
    The({ Failed(W, "munmap", o.branch, o.key,
                 IF Faulted(W, "munmap", o.branch, o.key) THEN -1 ELSE 0)
        : o \in {Fd(W, fd)} })

\* fstat(2)
K_fstat(W, fd) ==
    IF ~IsOpen(W, fd) THEN [w |-> W, res |-> -1, st |-> NoStat]    \* EBADF
    ELSE
    The({ IF Faulted(W, "fstat", o.branch, o.key)
          THEN [w |-> Issue(W, "fstat", o.branch, o.key), res |-> -1, st |-> NoStat]
          ELSE [w |-> Issue(W, "fstat", o.branch, o.key), res |-> 0,
                st |-> W.fs[o.branch][o.key]]
        : o \in {Fd(W, fd)} })

\* fchmod(2)
K_fchmod(W, fd, mode) ==
    IF ~IsOpen(W, fd) THEN [w |-> W, res |-> -1]    \* EBADF
    ELSE
    The({ IF Faulted(W, "fchmod", o.branch, o.key)
          THEN Failed(W, "fchmod", o.branch, o.key, -1)
          ELSE Done(W, "fchmod", o.branch, o.key,
                    [W.fs[o.branch][o.key] EXCEPT !.mode = mode], 0)
        : o \in {Fd(W, fd)} })

\* readlink(2) / readlinkat(2) into a buffer of bufsiz bytes
K_readlink(W, bufsiz, branch, path) ==
    The({ IF /\ ~Faulted(W, "readlink", branch, key)
             /\ Exists(W, branch, key)
             /\ W.fs[branch][key].type = "lnk"
          THEN [w    |-> Issue(W, "readlink", branch, key),
                res  |-> IF Len(W.fs[branch][key].data) < bufsiz
                         THEN Len(W.fs[branch][key].data) ELSE bufsiz,
                link |-> SubSeq(W.fs[branch][key].data, 1,
                                IF Len(W.fs[branch][key].data) < bufsiz
                                THEN Len(W.fs[branch][key].data) ELSE bufsiz)]
          ELSE [w |-> Issue(W, "readlink", branch, key), res |-> -1, link |-> <<>>]
        : key \in {BranchKey(path)} })

\* a system call that creates a node of a type other than directory at key
K_create(W, op, node, branch, path) ==
    The({ IF /\ ~Faulted(W, op, branch, key)
             /\ ~Exists(W, branch, key)
             /\ ParentOk(W, branch, key)
             /\ ~TrailingSlash(path)
          THEN Done(W, op, branch, key, node, 0)
          ELSE Failed(W, op, branch, key, -1)
        : key \in {BranchKey(path)} })

AllPerms == S_IRWXU \cup S_IRWXG \cup S_IRWXO

\* symlink(2) / symlinkat(2)
K_symlink(W, target, branch, path) ==
    K_create(W, "symlink", Node("lnk", AllPerms, proc.uid, proc.gid, Now, target),
             branch, path)

\* mkfifo(3) / mkfifoat(3)
K_mkfifo(W, mode, branch, path) ==
    K_create(W, "mkfifo", Node("fifo", mode \ proc.umask, proc.uid, proc.gid, Now, <<>>),
             branch, path)

\* mknod(2) / mknodat(2): a device node takes the superuser (EPERM)
K_mknod(W, type, mode, rdev, branch, path) ==
    IF type \in {"chr", "blk"} /\ proc.uid # 0
    THEN Failed(W, "mknod", branch, BranchKey(path), -1)
    ELSE K_create(W, "mknod", Node(type, mode \ proc.umask, proc.uid, proc.gid, Now, rdev),
                  branch, path)

RECURSIVE SetToSeq(_)
SetToSeq(S) ==
    IF S = {} THEN <<>>
    ELSE The({ <<x>> \o SetToSeq(S \ {x}) : x \in {CHOOSE y \in S : TRUE} })

\* the names readdir(3) returns for the directory at key, "." and ".." left out
Entries(W, branch, key) ==
    SetToSeq({k[Len(k)] : k \in {c \in DOMAIN W.fs[branch] :
                                    Len(c) = Len(key) + 1 /\ Front(c) = key}})

\* opendir(3) / openat + fdopendir; res -1 is NULL
K_opendir(W, branch, path) ==
    The({ IF ~Faulted(W, "opendir", branch, key) /\ IsDir(W, branch, key)
          THEN The({ [w |-> d.w, res |-> d.res, names |-> Entries(W, branch, key)]
                   : d \in {Opened(Issue(W, "opendir", branch, key), branch, key)} })
          ELSE [w |-> Issue(W, "opendir", branch, key), res |-> -1, names |-> <<>>]
        : key \in {BranchKey(path)} })

----------------------------------------------------------------------------
(* BranchIO: branch_ops.c *)

\* int branch_va_lstat(struct stat *buf, int branch, va_list ap)
branch_va_lstat(W, branch, parts) ==
    The({ IF b.res < 0 THEN [w |-> W, res |-> b.res, st |-> NoStat]
          ELSE K_lstat(W, branch, b.path)
        : b \in {va_build_path(PATHLEN_MAX, branch, parts)} })

\* int branch_lstat(struct stat *buf, int branch, ...)
branch_lstat(W, branch, parts) == branch_va_lstat(W, branch, parts)

\* int branch_stat(struct stat *buf, int branch, ...): the trees hold no
\* symbolic link to a directory, so that stat and lstat agree where it is used
branch_stat(W, branch, parts) ==
    The({ IF b.res < 0 THEN [w |-> W, res |-> b.res, st |-> NoStat]
          ELSE K_lstat(W, branch, b.path)
        : b \in {va_build_path(PATHLEN_MAX, branch, parts)} })

\* int branch_mkdir(mode_t mode, int branch, ...)
branch_mkdir(W, mode, branch, parts) ==
    The({ IF b.res < 0 THEN [w |-> W, res |-> b.res]
          ELSE K_mkdir(W, mode, branch, b.path)
        : b \in {va_build_path(PATHLEN_MAX, branch, parts)} })

\* int branch_open(int flags, mode_t mode, int branch, ...), O_WRONLY | O_CREAT
branch_open_creat(W, trunc, mode, branch, parts) ==
    The({ IF b.res < 0 THEN [w |-> W, res |-> b.res]
          ELSE K_open_creat(W, trunc, mode, branch, b.path)
        : b \in {va_build_path(PATHLEN_MAX, branch, parts)} })

\* int branch_unlink(int branch, ...)
branch_unlink(W, branch, parts) ==
    The({ IF b.res < 0 THEN [w |-> W, res |-> b.res]
          ELSE K_unlink(W, branch, b.path)
        : b \in {va_build_path(PATHLEN_MAX, branch, parts)} })

\* int branch_rmdir(int branch, ...)
branch_rmdir(W, branch, parts) ==
    The({ IF b.res < 0 THEN [w |-> W, res |-> b.res]
          ELSE K_rmdir(W, branch, b.path)
        : b \in {va_build_path(PATHLEN_MAX, branch, parts)} })

\* int branch_utimens(const struct timespec times[2], int branch, ...)
branch_utimens(W, mtime, branch, parts) ==
    The({ IF b.res < 0 THEN [w |-> W, res |-> b.res]
          ELSE K_utimens(W, mtime, branch, b.path)
        : b \in {va_build_path(PATHLEN_MAX, branch, parts)} })

\* int branch_chown(uid_t owner, gid_t group, int branch, ...)
branch_chown(W, uid, gid, branch, parts) ==
    The({ IF b.res < 0 THEN [w |-> W, res |-> b.res, errno |-> "ENAMETOOLONG"]
          ELSE K_chown(W, "chown", uid, gid, branch, b.path)
        : b \in {va_build_path(PATHLEN_MAX, branch, parts)} })

\* int branch_lchown(uid_t owner, gid_t group, int branch, ...)
branch_lchown(W, uid, gid, branch, parts) ==
    The({ IF b.res < 0 THEN [w |-> W, res |-> b.res, errno |-> "ENAMETOOLONG"]
          ELSE K_chown(W, "lchown", uid, gid, branch, b.path)
        : b \in {va_build_path(PATHLEN_MAX, branch, parts)} })

\* int branch_chmod(mode_t mode, int branch, ...)
branch_chmod(W, mode, branch, parts) ==
    The({ IF b.res < 0 THEN [w |-> W, res |-> b.res]
          ELSE K_chmod(W, mode, branch, b.path)
        : b \in {va_build_path(PATHLEN_MAX, branch, parts)} })

\* int branch_open(int flags, mode_t mode, int branch, ...), O_RDONLY
branch_open_rdonly(W, branch, parts) ==
    The({ IF b.res < 0 THEN [w |-> W, res |-> b.res]
          ELSE K_open_rdonly(W, branch, b.path)
        : b \in {va_build_path(PATHLEN_MAX, branch, parts)} })

\* DIR *branch_opendir(int branch, ...)
branch_opendir(W, branch, parts) ==
    The({ IF b.res < 0 THEN [w |-> W, res |-> -1, names |-> <<>>]
          ELSE K_opendir(W, branch, b.path)
        : b \in {va_build_path(PATHLEN_MAX, branch, parts)} })

\* int branch_mknod(mode_t mode, dev_t dev, int branch, ...)
branch_mknod(W, type, mode, rdev, branch, parts) ==
    The({ IF b.res < 0 THEN [w |-> W, res |-> b.res]
          ELSE K_mknod(W, type, mode, rdev, branch, b.path)
        : b \in {va_build_path(PATHLEN_MAX, branch, parts)} })

\* int branch_mkfifo(mode_t mode, int branch, ...)
branch_mkfifo(W, mode, branch, parts) ==
    The({ IF b.res < 0 THEN [w |-> W, res |-> b.res]
          ELSE K_mkfifo(W, mode, branch, b.path)
        : b \in {va_build_path(PATHLEN_MAX, branch, parts)} })

\* ssize_t branch_readlink(char *buf, size_t bufsiz, int branch, ...)
branch_readlink(W, bufsiz, branch, parts) ==
    The({ IF b.res < 0 THEN [w |-> W, res |-> b.res, link |-> <<>>]
          ELSE K_readlink(W, bufsiz, branch, b.path)
        : b \in {va_build_path(PATHLEN_MAX, branch, parts)} })

\* int branch_symlink(const char *target, int branch, ...)
branch_symlink(W, target, branch, parts) ==
    The({ IF b.res < 0 THEN [w |-> W, res |-> b.res]
          ELSE K_symlink(W, target, branch, b.path)
        : b \in {va_build_path(PATHLEN_MAX, branch, parts)} })

----------------------------------------------------------------------------
(* cow_utils.c: setfile *)

\* fs->st_mode &= S_ISUID | S_ISGID | S_IRWXU | S_IRWXG | S_IRWXO;
SetfileMode(st) ==
    [st EXCEPT !.mode = @ \cap (S_ISUID \cup S_ISGID \cup S_IRWXU \cup S_IRWXG \cup S_IRWXO)]

\* setfile with the setuid and setgid bits kept when CHOWN fails
AfterChown_keep(st, c) == st

\* if (CHOWN(...)) fs->st_mode &= ~(S_ISTXT | S_ISUID | S_ISGID);
AfterChown(st, c) ==
    IF c.res # 0 THEN [st EXCEPT !.mode = @ \ (S_ISVTX \cup S_ISUID \cup S_ISGID)] ELSE st

\* int setfile(int branch, const char *path, struct stat *fs); st is *fs,
\* which setfile changes in place and hands back
setfile(W, branch, path, st) ==
    The({ The({ The({ [w   |-> m.w,
                       res |-> IF \/ u.res # 0
                                  \/ (c.res # 0 /\ c.errno # "EPERM")
                                  \/ m.res # 0
                               THEN 1 ELSE 0,
                       st  |-> AfterChown(SetfileMode(st), c)]
                    : m \in {branch_chmod(c.w, AfterChown(SetfileMode(st), c).mode,
                                          branch, <<path>>)} })
              : c \in {branch_chown(u.w, st.uid, st.gid, branch, <<path>>)} })
        : u \in {branch_utimens(W, st.mtime, branch, <<path>>)} })

----------------------------------------------------------------------------
(* cow.c: creation of the parent directories *)

\* do_create from MKDIR on; st is buf
do_create_mkdir(W, path, nbranch_ro, nbranch_rw, st) ==
    The({ IF m.res = -1 THEN [w |-> m.w, res |-> 1]
          ELSE IF nbranch_ro = nbranch_rw THEN [w |-> m.w, res |-> 0]
          ELSE The({ [w |-> sf.w, res |-> IF sf.res # 0 THEN 1 ELSE 0]
                   : sf \in {setfile(m.w, nbranch_rw, path, st)} })
        : m \in {branch_mkdir(W, st.mode, nbranch_rw, <<path>>)} })

\* static int do_create(const char *path, int nbranch_ro, int nbranch_rw)
do_create(W, path, nbranch_ro, nbranch_rw) ==
    The({ IF s1.res # -1 THEN [w |-> s1.w, res |-> 0]    \* already exists
          ELSE IF nbranch_ro = nbranch_rw
          THEN do_create_mkdir(s1.w, path, nbranch_ro, nbranch_rw,
                               [NoStat EXCEPT !.mode = S_IRWXU \cup S_IRWXG])
          ELSE The({ IF s2.res = -1 THEN [w |-> s2.w, res |-> 1]
                     ELSE do_create_mkdir(s2.w, path, nbranch_ro, nbranch_rw, s2.st)
                   : s2 \in {branch_stat(s1.w, nbranch_ro, <<path>>)} })
        : s1 \in {branch_stat(W, nbranch_rw, <<path>>)} })

RECURSIVE path_create_walk(_, _, _, _, _)
\* the do ... while loop of path_create; walk is the index of *walk in p
path_create_walk(W, p, walk, nbranch_ro, nbranch_rw) ==
    The({ The({ IF r.res # 0 THEN r
                ELSE The({ IF w2 > Len(p) THEN [w |-> r.w, res |-> 0]
                           ELSE path_create_walk(r.w, p, w2, nbranch_ro, nbranch_rw)
                         : w2 \in {SkipSlashes(p, w1)} })
              : r \in {do_create(W, SubSeq(p, 1, w1 - 1), nbranch_ro, nbranch_rw)} })
        : w1 \in {SkipName(p, walk)} })

\* strncpy(p, path, PATHLEN_MAX - 1); p[PATHLEN_MAX - 1] = '\0';
Strncpy(path) ==
    SubSeq(path, 1, IF Len(path) < PATHLEN_MAX - 1 THEN Len(path) ELSE PATHLEN_MAX - 1)

\* path_create without the look-ups: the directory is made outright
path_create_mkdir(W, path, nbranch_ro, nbranch_rw) ==
    The({ [w |-> m.w, res |-> IF m.res = -1 THEN 1 ELSE 0]
        : m \in {branch_mkdir(W, S_IRWXU \cup S_IRWXG, nbranch_rw, <<path>>)} })

\* int path_create(const char *path, int nbranch_ro, int nbranch_rw)
path_create(W, path, nbranch_ro, nbranch_rw) ==
    IF ~cow_enabled THEN [w |-> W, res |-> 0]
    ELSE The({ IF s.res = 0 THEN [w |-> s.w, res |-> 0]
               ELSE The({ path_create_walk(s.w, p, SkipSlashes(p, 1), nbranch_ro, nbranch_rw)
                        : p \in {Strncpy(path)} })
             : s \in {branch_stat(W, nbranch_rw, <<path>>)} })

\* int path_create_cutlast(const char *path, int nbranch_ro, int nbranch_rw)
path_create_cutlast(W, path, nbranch_ro, nbranch_rw) ==
    The({ path_create(W, dname, nbranch_ro, nbranch_rw) : dname \in {u_dirname(path)} })

----------------------------------------------------------------------------
(* general.c: the whiteout store *)

\* static bool filedir_hidden(const char *path, int branch)
filedir_hidden(W, path, branch) ==
    IF ~cow_enabled THEN [w |-> W, res |-> FALSE]
    ELSE The({ [w |-> r.w, res |-> (r.res = 0)]
             : r \in {branch_lstat(W, branch, <<METADIR, path, HIDETAG>>)} })

RECURSIVE path_hidden_walk(_, _, _, _)
\* the do ... while loop of path_hidden; walk is the index of *walk in p
path_hidden_walk(W, p, walk, branch) ==
    The({ The({ IF r.res THEN r
                ELSE The({ IF w2 > Len(p) THEN [w |-> r.w, res |-> FALSE]
                           ELSE path_hidden_walk(r.w, p, w2, branch)
                         : w2 \in {SkipSlashes(p, w1)} })
              : r \in {filedir_hidden(W, SubSeq(p, 1, w1 - 1), branch)} })
        : w1 \in {SkipName(p, walk)} })

\* path_hidden without the walk: only the whole path is tested
path_hidden_whole(W, path, branch) ==
    IF ~cow_enabled THEN [w |-> W, res |-> FALSE]
    ELSE filedir_hidden(W, path, branch)

\* bool path_hidden(const char *path, int branch)
path_hidden(W, path, branch) ==
    IF ~cow_enabled THEN [w |-> W, res |-> FALSE]
    ELSE path_hidden_walk(W, path, SkipSlashes(path, 1), branch)

\* filetype_t path_is_dir(int branch, ...); junk is the content of the
\* uninitialised struct stat that is read when the path could not be built
path_is_dir(W, branch, parts, junk) ==
    The({ [w   |-> r.w,
           res |-> IF r.res = -1 THEN "NOT_EXISTING"
                   ELSE IF r.res # 0 THEN junk
                   ELSE IF r.st.type = "dir" THEN "IS_DIR"
                   ELSE "IS_FILE"]
        : r \in {branch_va_lstat(W, branch, parts)} })

\* the body of the loop of remove_hidden on a branch of the stack
remove_hidden_on(W, path, i, junk) ==
    The({ IF t.res = "IS_FILE" THEN branch_unlink(t.w, i, <<METADIR, path, HIDETAG>>)
          ELSE IF t.res = "IS_DIR" THEN branch_rmdir(t.w, i, <<METADIR, path, HIDETAG>>)
          ELSE [w |-> t.w, res |-> 0]
        : t \in {path_is_dir(W, i, <<METADIR, path, HIDETAG>>, junk)} })

RECURSIVE remove_hidden_loop(_, _, _, _, _, _)
\* for (i = 0; i <= maxbranch; i++); a branch ordinal outside the stack reads
\* uopt.branches[] out of bounds: the probe fails, or the process crashes
remove_hidden_loop(W, path, i, maxbranch, junk, oob) ==
    IF i > maxbranch THEN [w |-> W, res |-> 0]
    ELSE IF i \notin Branches
    THEN IF oob = "crash"
         THEN [w |-> [Issue(W, "lstat", i, <<>>) EXCEPT !.crashed = TRUE], res |-> 0]
         ELSE The({ remove_hidden_loop(W1, path, i + 1, maxbranch, junk, oob)
                  : W1 \in {Issue(W, "lstat", i, <<>>)} })
    ELSE The({ remove_hidden_loop(n.w, path, i + 1, maxbranch, junk, oob)
             : n \in {remove_hidden_on(W, path, i, junk)} })

\* int remove_hidden(const char *path, int maxbranch)
remove_hidden(W, path, maxbranch, junk, oob) ==
    IF ~cow_enabled THEN [w |-> W, res |-> 0]
    ELSE remove_hidden_loop(W, path, 0,
                            IF maxbranch = -1 THEN NBranches ELSE maxbranch, junk, oob)

\* do_create_whiteout from path_create_cutlast on, with the hide tag left out
\* of the marker's name
create_marker_notag(W, metapath, branch_rw, mode) ==
    The({ IF mode = "WHITEOUT_FILE"
          THEN The({ IF o.res = -1 THEN [w |-> o.w, res |-> -1]
                     ELSE K_close(o.w, o.res)
                   : o \in {branch_open_creat(c.w, FALSE, S_IRWXU, branch_rw, <<metapath>>)} })
          ELSE branch_mkdir(c.w, S_IRWXU, branch_rw, <<metapath>>)
        : c \in {path_create_cutlast(W, metapath, branch_rw, branch_rw)} })

\* do_create_whiteout from path_create_cutlast on
create_marker(W, metapath, branch_rw, mode) ==
    The({ IF mode = "WHITEOUT_FILE"
          THEN The({ IF o.res = -1 THEN [w |-> o.w, res |-> -1]
                     ELSE K_close(o.w, o.res)
                   : o \in {branch_open_creat(c.w, FALSE, S_IRWXU, branch_rw,
                                              <<metapath, HIDETAG>>)} })
          ELSE branch_mkdir(c.w, S_IRWXU, branch_rw, <<metapath, HIDETAG>>)
        : c \in {path_create_cutlast(W, metapath, branch_rw, branch_rw)} })

\* static int do_create_whiteout(const char *path, int branch_rw, enum whiteout mode)
do_create_whiteout(W, path, branch_rw, mode) ==
    The({ IF b.res # 0 THEN [w |-> W, res |-> -1]
          ELSE create_marker(W, b.path, branch_rw, mode)
        : b \in {build_path(PATHLEN_MAX, <<METADIR, path>>)} })

\* int hide_file(const char *path, int branch_rw)
hide_file(W, path, branch_rw) == do_create_whiteout(W, path, branch_rw, "WHITEOUT_FILE")

\* int hide_dir(const char *path, int branch_rw)
hide_dir(W, path, branch_rw) == do_create_whiteout(W, path, branch_rw, "WHITEOUT_DIR")

RECURSIVE find_from(_, _, _)
find_from(W, path, i) ==
    IF i \notin Branches THEN -1
    ELSE IF branch_lstat(W, i, <<path>>).res = 0 THEN i
    ELSE find_from(W, path, i + 1)

\* int find_rorw_branch(const char *path): the first branch path resolves on, or -1
find_rorw_branch(W, path) == find_from(W, path, 0)

\* maybe_whiteout without the look-up of the path in the stack
maybe_whiteout_always(W, path, branch_rw, mode) ==
    do_create_whiteout(W, path, branch_rw, mode)

\* int maybe_whiteout(const char *path, int branch_rw, enum whiteout mode)
maybe_whiteout(W, path, branch_rw, mode) ==
    IF find_rorw_branch(W, path) # -1
    THEN do_create_whiteout(W, path, branch_rw, mode)
    ELSE [w |-> W, res |-> 0]

----------------------------------------------------------------------------
(* cow_utils.c: copies of one object *)

\* st_size of a struct stat
St_size(st) == Len(st.data)

\* static int setlink(int branch, const char *path, struct stat *fs)
setlink(W, branch, path, st) ==
    The({ [w |-> c.w, res |-> IF c.res # 0 /\ c.errno # "EPERM" THEN 1 ELSE 0]
        : c \in {branch_lchown(W, st.uid, st.gid, branch, <<path>>)} })

\* (void)close(from_fd); if (close(to_fd)) rval = 1; return (rval);
copy_file_close(W, from_fd, to_fd, rval) ==
    The({ The({ [w |-> c2.w, res |-> IF c2.res # 0 THEN 1 ELSE rval]
              : c2 \in {K_close(c1.w, to_fd)} })
        : c1 \in {K_close(W, from_fd)} })

\* the else-if of copy_file after setfile: a setuid or setgid source of the
\* acting user keeps its bits when the copy has the group of the source
copy_file_retain(W, cow, st, to_fd) ==
    IF (st.mode \cap (S_ISUID \cup S_ISGID)) # {} /\ st.uid = cow.uid
    THEN The({ IF f.res # 0 THEN [w |-> f.w, rval |-> 1]
               ELSE IF st.gid = f.st.gid
               THEN The({ [w |-> m.w, rval |-> IF m.res # 0 THEN 1 ELSE 0]
                        : m \in {K_fchmod(f.w, to_fd,
                                          (st.mode \cap (S_ISUID \cup S_ISGID \cup S_ISVTX
                                                         \cup AllPerms)) \ cow.umask)} })
               ELSE [w |-> f.w, rval |-> 0]
             : f \in {K_fstat(W, to_fd)} })
    ELSE [w |-> W, rval |-> 0]

\* copy_file from "if (rval == 1)" on
copy_file_finish(W, cow, from_fd, to_fd, rval) ==
    IF rval = 1
    THEN The({ The({ [w |-> c2.w, res |-> 1] : c2 \in {K_close(c1.w, to_fd)} })
             : c1 \in {K_close(W, from_fd)} })
    ELSE The({ IF sf.res # 0 THEN copy_file_close(sf.w, from_fd, to_fd, 1)
               ELSE The({ copy_file_close(k.w, from_fd, to_fd, k.rval)
                        : k \in {copy_file_retain(sf.w, cow, sf.st, to_fd)} })
             : sf \in {setfile(W, cow.to_branch, cow.to_path, cow.st)} })

\* the mmap branch of copy_file
copy_mmap(W, cow, from_fd, to_fd) ==
    The({ IF m.res = -1 THEN [w |-> m.w, rval |-> 1, rcount |-> 0]
          ELSE The({ The({ [w      |-> u.w,
                            rval   |-> IF wr.res # St_size(cow.st) \/ u.res < 0
                                       THEN 1 ELSE 0,
                            rcount |-> 0]
                         : u \in {K_munmap(wr.w, from_fd)} })
                   : wr \in {K_write(m.w, to_fd, m.map)} })
        : m \in {K_mmap(W, from_fd, St_size(cow.st))} })

\* the read loop of copy_file with a single pass
copy_loop_once(W, from_fd, to_fd) ==
    The({ IF r.res > 0
          THEN The({ [w |-> wr.w, rval |-> IF r.res # wr.res \/ wr.res = -1 THEN 1 ELSE 0,
                      rcount |-> 0]
                   : wr \in {K_write(r.w, to_fd, r.buf)} })
          ELSE [w |-> r.w, rval |-> 0, rcount |-> r.res]
        : r \in {K_read(W, from_fd, MAXBSIZE)} })

RECURSIVE copy_loop(_, _, _)
\* while ((rcount = read(from_fd, buf, MAXBSIZE)) > 0) ...
copy_loop(W, from_fd, to_fd) ==
    The({ IF r.res > 0
          THEN The({ IF r.res # wr.res \/ wr.res = -1
                     THEN [w |-> wr.w, rval |-> 1, rcount |-> r.res]
                     ELSE copy_loop(wr.w, from_fd, to_fd)
                   : wr \in {K_write(r.w, to_fd, r.buf)} })
          ELSE [w |-> r.w, rval |-> 0, rcount |-> r.res]
        : r \in {K_read(W, from_fd, MAXBSIZE)} })

\* copy_file from the test of st_size on
copy_file_data(W, cow, from_fd, to_fd) ==
    IF St_size(cow.st) > 0 /\ St_size(cow.st) <= MmapLimit
    THEN The({ copy_file_finish(d.w, cow, from_fd, to_fd, d.rval)
             : d \in {copy_mmap(W, cow, from_fd, to_fd)} })
    ELSE The({ IF d.rcount < 0 THEN [w |-> d.w, res |-> 1]
               ELSE copy_file_finish(d.w, cow, from_fd, to_fd, d.rval)
             : d \in {copy_loop(W, from_fd, to_fd)} })

\* int copy_file(struct cow *cow)
copy_file(W, cow) ==
    The({ IF f.res = -1 THEN [w |-> f.w, res |-> 1]
          ELSE The({ IF t.res = -1
                     THEN The({ [w |-> c.w, res |-> 1] : c \in {K_close(t.w, f.res)} })
                     ELSE copy_file_data(t.w, cow, f.res, t.res)
                   : t \in {branch_open_creat(f.w, TRUE,
                                              cow.st.mode \ (S_ISVTX \cup S_ISUID \cup S_ISGID),
                                              cow.to_branch, <<cow.to_path>>)} })
        : f \in {branch_open_rdonly(W, cow.from_branch, <<cow.from_path>>)} })

\* int copy_link(struct cow *cow)
copy_link(W, cow) ==
    The({ IF l.res = -1 THEN [w |-> l.w, res |-> 1]
          ELSE The({ IF y.res # 0 THEN [w |-> y.w, res |-> 1]
                     ELSE setlink(y.w, cow.to_branch, cow.to_path, cow.st)
                   : y \in {branch_symlink(l.w, l.link, cow.to_branch, <<cow.to_path>>)} })
        : l \in {branch_readlink(W, PATHLEN_MAX - 1, cow.from_branch, <<cow.from_path>>)} })

\* what cow_cp's caller sees of setfile: the status
setfile_res(W, branch, path, st) ==
    The({ [w |-> sf.w, res |-> sf.res] : sf \in {setfile(W, branch, path, st)} })

\* copy_fifo without the transfer of the stat() data
copy_fifo_nometa(W, cow) ==
    The({ [w |-> f.w, res |-> IF f.res # 0 THEN 1 ELSE 0]
        : f \in {branch_mkfifo(W, cow.st.mode, cow.to_branch, <<cow.to_path>>)} })

\* int copy_fifo(struct cow *cow)
copy_fifo(W, cow) ==
    The({ IF f.res # 0 THEN [w |-> f.w, res |-> 1]
          ELSE setfile_res(f.w, cow.to_branch, cow.to_path, cow.st)
        : f \in {branch_mkfifo(W, cow.st.mode, cow.to_branch, <<cow.to_path>>)} })

\* int copy_special(struct cow *cow)
copy_special(W, cow) ==
    The({ IF n.res # 0 THEN [w |-> n.w, res |-> 1]
          ELSE setfile_res(n.w, cow.to_branch, cow.to_path, cow.st)
        : n \in {branch_mknod(W, cow.st.type, cow.st.mode, cow.st.data,
                              cow.to_branch, <<cow.to_path>>)} })

----------------------------------------------------------------------------
(* cow.c: the promotion of a path *)

\* struct cow, filled in by cow_cp
Cow(path, branch_ro, branch_rw, st) ==
    [umask |-> proc.umask, uid |-> proc.uid,
     from_branch |-> branch_ro, from_path |-> path, st |-> st,
     to_branch |-> branch_rw, to_path |-> path]

RECURSIVE cow_cp(_, _, _, _)
RECURSIVE copy_directory_loop(_, _, _, _, _, _)

\* the while ((de = readdir(dp)) != NULL) loop of copy_directory
copy_directory_loop(W, path, names, branch_ro, branch_rw, dp) ==
    IF names = <<>>
    THEN The({ [w |-> c.w, res |-> 0] : c \in {K_close(W, dp)} })
    ELSE IF Len(path) + 1 + Len(Head(names)) >= PATHLEN_MAX
    THEN [w |-> W, res |-> 1]
    ELSE The({ IF r.res # 0 THEN r
               ELSE copy_directory_loop(r.w, path, Tail(names), branch_ro, branch_rw, dp)
             : r \in {cow_cp(W, path \o <<Slash>> \o Head(names), branch_ro, branch_rw)} })

\* int copy_directory(const char *path, int branch_ro, int branch_rw)
copy_directory(W, path, branch_ro, branch_rw) ==
    The({ IF c.res # 0 THEN c
          ELSE The({ IF d.res = -1 THEN [w |-> d.w, res |-> 1]
                     ELSE copy_directory_loop(d.w, path, d.names, branch_ro, branch_rw, d.res)
                   : d \in {branch_opendir(c.w, branch_ro, <<path>>)} })
        : c \in {path_create(W, path, branch_ro, branch_rw)} })

\* the switch of cow_cp with a socket handled as a special file
cow_cp_switch_sock(W, path, branch_ro, branch_rw, st) ==
    IF st.type = "lnk" THEN copy_link(W, Cow(path, branch_ro, branch_rw, st))
    ELSE IF st.type = "dir" THEN copy_directory(W, path, branch_ro, branch_rw)
    ELSE IF st.type \in {"blk", "chr", "sock"}
    THEN copy_special(W, Cow(path, branch_ro, branch_rw, st))
    ELSE IF st.type = "fifo" THEN copy_fifo(W, Cow(path, branch_ro, branch_rw, st))
    ELSE copy_file(W, Cow(path, branch_ro, branch_rw, st))

\* switch (buf.st_mode & S_IFMT) of cow_cp
cow_cp_switch(W, path, branch_ro, branch_rw, st) ==
    IF st.type = "lnk" THEN copy_link(W, Cow(path, branch_ro, branch_rw, st))
    ELSE IF st.type = "dir" THEN copy_directory(W, path, branch_ro, branch_rw)
    ELSE IF st.type \in {"blk", "chr"}
    THEN copy_special(W, Cow(path, branch_ro, branch_rw, st))
    ELSE IF st.type = "fifo" THEN copy_fifo(W, Cow(path, branch_ro, branch_rw, st))
    ELSE IF st.type = "sock" THEN [w |-> W, res |-> 1]
    ELSE copy_file(W, Cow(path, branch_ro, branch_rw, st))

\* cow_cp from the LSTAT of the source on
cow_cp_source(W, path, branch_ro, branch_rw) ==
    The({ IF s.res # 0 THEN [w |-> s.w, res |-> s.res]
          ELSE cow_cp_switch(s.w, path, branch_ro, branch_rw, s.st)
        : s \in {branch_lstat(W, branch_ro, <<path>>)} })

\* cow_cp with the LSTAT of the source ahead of path_create_cutlast
cow_cp_stat_first(W, path, branch_ro, branch_rw) ==
    The({ IF s.res # 0 THEN [w |-> s.w, res |-> s.res]
          ELSE The({ cow_cp_switch(c.w, path, branch_ro, branch_rw, s.st)
                   : c \in {path_create_cutlast(s.w, path, branch_ro, branch_rw)} })
        : s \in {branch_lstat(W, branch_ro, <<path>>)} })

\* int cow_cp(const char *path, int branch_ro, int branch_rw); the status of
\* path_create_cutlast is not looked at
cow_cp(W, path, branch_ro, branch_rw) ==
    The({ cow_cp_source(c.w, path, branch_ro, branch_rw)
        : c \in {path_create_cutlast(W, path, branch_ro, branch_rw)} })

----------------------------------------------------------------------------
(* The branches at mount time *)

P_root == <<"/">>
P_a    == <<"/", "a">>
P_b    == <<"/", "b">>
P_ab   == <<"/", "a", "/", "b">>
P_aa   == <<"/", "a", "/", "a">>
P_aab  == <<"/", "a", "/", "a", "/", "b">>
P_aba  == <<"/", "a", "/", "b", "/", "a">>

Data(n) == [i \in 1 .. n |-> i]

K(path) == SplitFrom(path, 1)

RootDir == Node("dir", {"U", "G", "O"}, 0, 0, 5, <<>>)
EmptyTree == (<<>> :> RootDir)

\* a branch that an earlier mount with COW has left its metadata directory on
MetaTree == EmptyTree @@ (K(<<"m">>) :> Node("dir", {"U", "G"}, 1, 1, 5, <<>>))

\* the read-only branch: /a, /a/a directories, /a/b and /a/a/b regular files
\* of size bytes, /b a leaf of the given type
ROTree(size, leaf) ==
    EmptyTree
    @@ (K(P_a)   :> Node("dir", {"U", "G", "O"}, 1, 1, 5, <<>>))
    @@ (K(P_aa)  :> Node("dir", {"U", "G"}, 2, 1, 6, <<>>))
    @@ (K(P_ab)  :> Node("reg", {"U", "G", "O"}, 1, 1, 7, Data(size)))
    @@ (K(P_aab) :> Node("reg", {"U"}, 1, 2, 7, Data(size)))
    @@ (K(P_b)   :> Node(leaf, {"U", "G", "O"}, 1, 1, 8,
                         IF leaf = "lnk" THEN <<"t">> ELSE <<>>))

W0 == World(fs, NoFault)

NoCall == [op |-> "none", path |-> <<>>, branch |-> 0, arg |-> 0, res |-> 0,
           bres |-> FALSE, found |-> -1, log |-> <<>>, crashed |-> FALSE,
           fault |-> NoFault, open |-> {}, n |-> 0,
           prev |-> [op |-> "none", path |-> <<>>, arg |-> 0, res |-> 0]]

Call(op, path, branch, arg, r) ==
    [NoCall EXCEPT !.op = op, !.path = path, !.branch = branch, !.arg = arg,
                   !.res = r.res, !.log = r.w.log, !.crashed = r.w.crashed,
                   !.fault = r.w.fault, !.open = r.w.open]

----------------------------------------------------------------------------
(* The whiteout store as a state machine *)

HidePaths  == {P_a, P_ab}
QueryPaths == {P_root, P_a, P_b, P_ab, P_aba}
MaxBranchArgs == {-1, 0, NBranches - 1}
Kinds == {"WHITEOUT_FILE", "WHITEOUT_DIR"}

InitW ==
    /\ cow_enabled \in BOOLEAN
    /\ at_family \in BOOLEAN
    /\ proc = [uid |-> 1, gid |-> 1, umask |-> {}]
    /\ \E pre \in (IF cow_enabled THEN {FALSE} ELSE BOOLEAN) :
         fs = [b \in Branches |->
                 IF b \in ROBranches THEN ROTree(1, "reg")
                 ELSE IF b = 0 /\ pre THEN MetaTree ELSE EmptyTree]
    /\ hid = {}
    /\ last = NoCall

HideFile(path, b) ==
    \E r \in {hide_file(W0, path, b)} :
    /\ ~last.crashed
    /\ fs' = r.w.fs
    /\ last' = Call("hide_file", path, b, 0, r)
    /\ hid' = IF r.res = 0 THEN hid \cup {<<path, b>>} ELSE hid
    /\ UNCHANGED <<cow_enabled, at_family, proc>>

HideDir(path, b) ==
    \E r \in {hide_dir(W0, path, b)} :
    /\ ~last.crashed
    /\ fs' = r.w.fs
    /\ last' = Call("hide_dir", path, b, 0, r)
    /\ hid' = IF r.res = 0 THEN hid \cup {<<path, b>>} ELSE hid
    /\ UNCHANGED <<cow_enabled, at_family, proc>>

MaybeWhiteout(path, b, mode) ==
    \E r \in {maybe_whiteout(W0, path, b, mode)} :
    /\ ~last.crashed
    /\ fs' = r.w.fs
    /\ last' = [Call("maybe_whiteout", path, b, 0, r) EXCEPT
                   !.found = find_rorw_branch(W0, path),
                   !.arg = IF mode = "WHITEOUT_FILE" THEN 0 ELSE 1]
    /\ UNCHANGED <<cow_enabled, at_family, proc, hid>>

RemoveHidden(path, maxbranch, junk, oob) ==
    \E r \in {remove_hidden(W0, path, maxbranch, junk, oob)} :
    /\ ~last.crashed
    /\ fs' = r.w.fs
    /\ last' = Call("remove_hidden", path, 0, maxbranch, r)
    /\ hid' = {h \in hid : ~(h[1] = path /\ (maxbranch = -1 \/ h[2] <= maxbranch))}
    /\ UNCHANGED <<cow_enabled, at_family, proc>>

PathHidden(path, b) ==
    \E r \in {path_hidden(W0, path, b)} :
    /\ ~last.crashed
    /\ last' = [Call("path_hidden", path, b, 0, [w |-> r.w, res |-> 0]) EXCEPT !.bres = r.res]
    /\ UNCHANGED <<fs, cow_enabled, at_family, proc, hid>>

\* the (path, branch) pairs the front end hides, tests and queries
HideTargets  == {<<P_a, 0>>, <<P_ab, 0>>, <<P_a, 1>>}
MaybeTargets == {<<P_a, 0>>, <<P_aba, 0>>}
QueryTargets == {<<P_root, 0>>, <<P_a, 0>>, <<P_ab, 0>>, <<P_aba, 0>>, <<P_a, 1>>}

\* the uninitialised stat buffer matters only when the marker path is too long,
\* the out-of-bounds outcome only when the loop leaves the stack
RemoveInputs ==
    {i \in HidePaths \X MaxBranchArgs \X {"IS_FILE", "IS_DIR"} \X {"fail", "crash"} :
        /\ (i[3] = "IS_FILE" =>
               va_build_path(PATHLEN_MAX, 0, <<METADIR, i[1], HIDETAG>>).res # 0)
        /\ (i[4] = "crash" => (cow_enabled /\ i[2] = -1))}

NextW ==
    \/ \E t \in HideTargets : HideFile(t[1], t[2])
    \/ \E t \in HideTargets : HideDir(t[1], t[2])
    \/ \E t \in MaybeTargets, mode \in Kinds : MaybeWhiteout(t[1], t[2], mode)
    \/ \E i \in RemoveInputs : RemoveHidden(i[1], i[2], i[3], i[4])
    \/ \E t \in QueryTargets : PathHidden(t[1], t[2])

SpecW == InitW /\ [][NextW]_vars


----------------------------------------------------------------------------
(* The COW engine as a state machine: promotions from the read-only branch *)
(* to the first read-write branch, one at a time                           *)

branch_ro == CHOOSE b \in ROBranches : \A c \in ROBranches : b <= c
branch_rw == CHOOSE b \in RWBranches : \A c \in RWBranches : b <= c

\* sizes of the regular files: empty, the least and the greatest size that
\* is mapped, the least size that is not, and one more buffer than that
Sizes == {0, 1, MmapLimit, MmapLimit + 1, MmapLimit + 1 + MAXBSIZE}
Leaves == {"lnk", "fifo", "chr", "sock"}

\* the read-only trees at mount time: every size, and every type of leaf
Scenarios == {<<n, "lnk">> : n \in Sizes} \cup {<<1, l>> : l \in Leaves}

\* the promotions and parent creations the front end asks for; a system call
\* of the promotion of /a/b may fail for an outside reason
Fault(op, branch, path) == [op |-> op, branch |-> branch, key |-> K(path)]

CowInputs ==
    {<<P_ab, f>> : f \in {NoFault,
                          Fault("mkdir", branch_rw, P_a), Fault("chmod", branch_rw, P_a),
                          Fault("lstat", branch_ro, P_ab), Fault("read", branch_ro, P_ab),
                          Fault("write", branch_rw, P_ab), Fault("utimens", branch_rw, P_ab)}}
    \cup {<<p, NoFault>> : p \in {P_aab, P_b, P_aa}}

\* a path under /a that with the branch root in front is PATHLEN_MAX long
P_long ==
    P_a \o <<Slash>> \o [i \in 1 .. (PATHLEN_MAX - Len(RootPath) - Len(P_a) - 1) |-> "x"]

CreateInputs ==
    {<<P_a, branch_ro, NoFault>>, <<P_aa, branch_ro, NoFault>>,
     <<P_aa, branch_rw, NoFault>>, <<P_aa, branch_ro, Fault("chmod", branch_rw, P_aa)>>,
     <<P_long, branch_ro, NoFault>>}

\* what a call record keeps of the call before it
Prev(c) == [op |-> c.op, path |-> c.path, arg |-> c.arg, res |-> c.res]

InitC ==
    /\ cow_enabled = TRUE
    /\ at_family \in BOOLEAN
    /\ proc = [uid |-> 1, gid |-> 1, umask |-> {}]
    /\ \E sc \in Scenarios :
         fs = [b \in Branches |->
                 IF b \in ROBranches THEN ROTree(sc[1], sc[2]) ELSE EmptyTree]
    /\ hid = {}
    /\ last = NoCall

CowCp(path, fault) ==
    \E r \in {cow_cp(World(fs, fault), path, branch_ro, branch_rw)} :
    /\ last.n < MaxCalls
    /\ fs' = r.w.fs
    /\ last' = [Call("cow_cp", path, branch_rw, branch_ro, r) EXCEPT
                   !.n = last.n + 1, !.prev = Prev(last)]
    /\ UNCHANGED <<cow_enabled, at_family, proc, hid>>

PathCreate(path, nbranch_ro, fault) ==
    \E r \in {path_create(World(fs, fault), path, nbranch_ro, branch_rw)} :
    /\ last.n < MaxCalls
    /\ fs' = r.w.fs
    /\ last' = [Call("path_create", path, branch_rw, nbranch_ro, r) EXCEPT
                   !.n = last.n + 1, !.prev = Prev(last)]
    /\ UNCHANGED <<cow_enabled, at_family, proc, hid>>

NextC ==
    \/ \E i \in CowInputs : CowCp(i[1], i[2])
    \/ \E i \in CreateInputs : PathCreate(i[1], i[2], i[3])

SpecC == InitC /\ [][NextC]_vars

----------------------------------------------------------------------------
(* Promotions of a tree with every type of leaf, by the superuser or by a  *)
(* user, under a process umask                                             *)

P_c == <<"/", "c">>

\* mode and ownership of the regular file /a/b
SrcStats ==
    {[mode |-> S_IRWXU \cup S_IRWXG \cup S_IRWXO \cup S_ISUID, uid |-> 1, gid |-> 1],
     [mode |-> S_IRWXU \cup S_IRWXG \cup S_IRWXO \cup S_ISUID \cup S_ISGID, uid |-> 2, gid |-> 1],
     [mode |-> S_IRWXU \cup S_IRWXO \cup S_ISGID, uid |-> 1, gid |-> 2],
     [mode |-> S_IRWXU \cup S_IRWXG \cup S_IRWXO \cup S_ISUID \cup S_ISVTX, uid |-> 0, gid |-> 1]}

\* the read-only branch: /a/b a regular file with st, /a/a/b a fifo, /b a
\* symbolic link, /c a character device
TreeS(st) ==
    (K(P_ab) :> Node("reg", st.mode, st.uid, st.gid, 7, Data(MAXBSIZE)))
    @@ (K(P_aab) :> Node("fifo", S_IRWXU \cup S_IRWXG, 2, 1, 6, <<>>))
    @@ (K(P_c) :> Node("chr", S_IRWXU, 0, 1, 4, <<"d">>))
    @@ ROTree(1, "lnk")

PromotePaths == {P_ab, P_aab, P_b, P_c}

InitS ==
    /\ cow_enabled = TRUE
    /\ at_family \in BOOLEAN
    /\ proc \in {[uid |-> u, gid |-> 1, umask |-> m] : u \in {0, 1}, m \in {{}, S_IRWXO}}
    /\ \E st \in SrcStats :
         fs = [b \in Branches |-> IF b \in ROBranches THEN TreeS(st) ELSE EmptyTree]
    /\ hid = {}
    /\ last = NoCall

NextS == \E path \in PromotePaths : CowCp(path, NoFault)

SpecS == InitS /\ [][NextS]_vars

----------------------------------------------------------------------------
(* BranchIO under the two backends.  An operation runs under one backend;  *)
(* then the state it started from is taken up again under the other        *)
(* backend and the same operation runs there, so that the two outcomes can *)
(* be compared.                                                            *)

\* a path of n characters: "/" and a name of n - 1 characters
LongPath(n) == [i \in 1 .. n |-> IF i = 1 THEN Slash ELSE "x"]

\* the lengths at the limit of each backend
EdgeLengths ==
    {PATHLEN_MAX - Len(RootPath) - 1, PATHLEN_MAX - Len(RootPath),
     PATHLEN_MAX - 1, PATHLEN_MAX}

\* the path components handed to an operation: paths of the tree, and paths
\* at the limit, in one component or as <METADIR><path><HIDETAG>
PartsB ==
    {<<p>> : p \in {P_a, P_ab, P_b, P_c}}
    \cup {<<LongPath(n)>> : n \in EdgeLengths}
    \cup {<<METADIR, LongPath(n - Len(METADIR) - Len(HIDETAG)), HIDETAG>> : n \in EdgeLengths}

OpsB ==
    {"lstat", "stat", "mkdir", "open_creat", "open", "opendir", "unlink", "rmdir",
     "utimens", "chown", "lchown", "chmod", "mknod", "mkfifo", "readlink", "symlink"}

\* the branch: /a a directory, /a/b a regular file, /b a dangling symbolic link
TreeB ==
    EmptyTree
    @@ (K(P_a)  :> Node("dir", AllPerms, 1, 1, 5, <<>>))
    @@ (K(P_ab) :> Node("reg", AllPerms, 1, 1, 7, Data(1)))
    @@ (K(P_b)  :> Node("lnk", AllPerms, 1, 1, 8, <<"t">>))

\* the BranchIO operation op on the path components parts
Apply(op, W, branch, parts) ==
    CASE op = "lstat"      -> branch_lstat(W, branch, parts)
      [] op = "stat"       -> branch_stat(W, branch, parts)
      [] op = "mkdir"      -> branch_mkdir(W, S_IRWXU, branch, parts)
      [] op = "open_creat" -> branch_open_creat(W, TRUE, S_IRWXU, branch, parts)
      [] op = "open"       -> branch_open_rdonly(W, branch, parts)
      [] op = "opendir"    -> branch_opendir(W, branch, parts)
      [] op = "unlink"     -> branch_unlink(W, branch, parts)
      [] op = "rmdir"      -> branch_rmdir(W, branch, parts)
      [] op = "utimens"    -> branch_utimens(W, Now - 1, branch, parts)
      [] op = "chown"      -> branch_chown(W, proc.uid, proc.gid, branch, parts)
      [] op = "lchown"     -> branch_lchown(W, proc.uid, proc.gid, branch, parts)
      [] op = "chmod"      -> branch_chmod(W, S_IRWXU, branch, parts)
      [] op = "mknod"      -> branch_mknod(W, "fifo", S_IRWXU, <<>>, branch, parts)
      [] op = "mkfifo"     -> branch_mkfifo(W, S_IRWXU, branch, parts)
      [] op = "readlink"   -> branch_readlink(W, PATHLEN_MAX - 1, branch, parts)
      [] op = "symlink"    -> branch_symlink(W, <<"t">>, branch, parts)

\* what the caller of an operation sees: everything returned but the world
Out(r) == [f \in (DOMAIN r) \ {"w"} |-> r[f]]

InitB ==
    /\ cow_enabled = TRUE
    /\ at_family \in BOOLEAN
    /\ proc = [uid |-> 1, gid |-> 1, umask |-> {}]
    /\ fs = [b \in Branches |-> IF b = branch_rw THEN TreeB ELSE EmptyTree]
    /\ hid = {}
    /\ last = [op |-> "none", parts |-> <<>>, n |-> 0, out |-> [res |-> 0], log |-> <<>>,
               before |-> fs, twin |-> [out |-> [res |-> 0], after |-> fs]]

BranchOp(op, parts) ==
    \E r \in {Apply(op, W0, branch_rw, parts)} :
    /\ last.n = 0
    /\ fs' = r.w.fs
    /\ last' = [last EXCEPT !.op = op, !.parts = parts, !.n = 1, !.out = Out(r),
                            !.log = r.w.log, !.before = fs]
    /\ UNCHANGED <<cow_enabled, at_family, proc, hid>>

OtherBackend ==
    /\ last.n = 1
    /\ at_family' = ~at_family
    /\ fs' = last.before
    /\ last' = [last EXCEPT !.n = 2, !.twin = [out |-> last.out, after |-> fs]]
    /\ UNCHANGED <<cow_enabled, proc, hid>>

Replay ==
    /\ last.n = 2
    /\ \E r \in {Apply(last.op, W0, branch_rw, last.parts)} :
         /\ fs' = r.w.fs
         /\ last' = [last EXCEPT !.n = 3, !.out = Out(r), !.log = r.w.log]
         /\ UNCHANGED <<cow_enabled, at_family, proc, hid>>

NextB ==
    \/ \E op \in OpsB, parts \in PartsB : BranchOp(op, parts)
    \/ OtherBackend
    \/ Replay

SpecB == InitB /\ [][NextB]_vars

----------------------------------------------------------------------------
(* Promotions in threads.  Each thread runs cow_cp on its own path, one    *)
(* system call at a time; the threads share the file system, the process   *)
(* umask, the descriptor table and the static buffer of copy_file, which   *)
(* are kept in proc.  path_create_cutlast, and copy_file from setfile on,  *)
(* are one step each.                                                      *)

Threads == {1, 2}

\* the path each thread promotes
PathOf(t) == IF t = 1 THEN P_ab ELSE P_b

\* a file above the mmap limit is copied by the read loop
BigSize == MmapLimit + 1

\* two regular files of different content on the read-only branch
TreeT ==
    EmptyTree
    @@ (K(P_a)  :> Node("dir", AllPerms, 1, 1, 5, <<>>))
    @@ (K(P_ab) :> Node("reg", AllPerms, 1, 1, 7, [i \in 1 .. BigSize |-> i]))
    @@ (K(P_b)  :> Node("reg", AllPerms, 1, 1, 8, [i \in 1 .. BigSize |-> BigSize + i]))

\* the thread before its call of cow_cp
Idle(t) ==
    [pc |-> "cow_cp", path |-> PathOf(t), umask |-> {}, st |-> NoStat,
     from_fd |-> -1, to_fd |-> -1, rcount |-> 0, rval |-> 0, res |-> 0]

\* the world a step of a thread acts on
WT == [World(fs, NoFault) EXCEPT !.open = proc.open]

\* struct cow of a thread
CowT(t) ==
    [Cow(proc.thr[t].path, branch_ro, branch_rw, proc.thr[t].st)
        EXCEPT !.umask = proc.thr[t].umask]

InitT ==
    /\ cow_enabled = TRUE
    /\ at_family = TRUE
    /\ \E u \in {S_IRWXO} :
         /\ proc = [uid |-> 1, gid |-> 1, umask |-> u,
                    buf |-> [i \in 1 .. MAXBSIZE |-> 0], open |-> {},
                    thr |-> [t \in Threads |-> Idle(t)]]
         /\ last = [op |-> "threads", umask |-> u]
    /\ fs = [b \in Branches |-> IF b = branch_ro THEN TreeT ELSE EmptyTree]
    /\ hid = {}

\* a step of thread t from pc that leaves the world w and the thread as thr
StepT(t, w, thr) ==
    /\ fs' = w.fs
    /\ proc' = [proc EXCEPT !.open = w.open, !.thr[t] = thr]
    /\ UNCHANGED <<cow_enabled, at_family, hid, last>>

\* path_create_cutlast(path, branch_ro, branch_rw);
T_PathCreate(t) ==
    /\ proc.thr[t].pc = "cow_cp"
    /\ \E r \in {path_create_cutlast(WT, proc.thr[t].path, branch_ro, branch_rw)} :
         StepT(t, r.w, [proc.thr[t] EXCEPT !.pc = "umask0"])

\* cow.umask = umask(0);
T_Umask0(t) ==
    /\ proc.thr[t].pc = "umask0"
    /\ proc' = [proc EXCEPT !.umask = {},
                            !.thr[t] = [@ EXCEPT !.umask = proc.umask, !.pc = "umask"]]
    /\ UNCHANGED <<fs, cow_enabled, at_family, hid, last>>

\* umask(cow.umask);
T_Umask(t) ==
    /\ proc.thr[t].pc = "umask"
    /\ proc' = [proc EXCEPT !.umask = proc.thr[t].umask,
                            !.thr[t] = [@ EXCEPT !.pc = "lstat"]]
    /\ UNCHANGED <<fs, cow_enabled, at_family, hid, last>>

\* LSTAT of the source and the switch on its type; anything but a regular
\* file is copied in this step
T_Lstat(t) ==
    /\ proc.thr[t].pc = "lstat"
    /\ \E s \in {branch_lstat(WT, branch_ro, <<proc.thr[t].path>>)} :
         IF s.res # 0
         THEN StepT(t, s.w, [proc.thr[t] EXCEPT !.pc = "done", !.res = s.res])
         ELSE IF s.st.type # "reg"
         THEN \E c \in {cow_cp_switch(s.w, proc.thr[t].path, branch_ro, branch_rw, s.st)} :
                StepT(t, c.w, [proc.thr[t] EXCEPT !.pc = "done", !.res = c.res])
         ELSE StepT(t, s.w, [proc.thr[t] EXCEPT !.pc = "open_from", !.st = s.st])

\* from_fd = OPEN(O_RDONLY, 0, cow->from_branch, cow->from_path)
T_OpenFrom(t) ==
    /\ proc.thr[t].pc = "open_from"
    /\ \E f \in {branch_open_rdonly(WT, branch_ro, <<proc.thr[t].path>>)} :
         IF f.res = -1
         THEN StepT(t, f.w, [proc.thr[t] EXCEPT !.pc = "done", !.res = 1])
         ELSE StepT(t, f.w, [proc.thr[t] EXCEPT !.pc = "open_to", !.from_fd = f.res])

\* to_fd = OPEN(O_WRONLY | O_TRUNC | O_CREAT, ...); a file within the mmap
\* limit is copied in this step
T_OpenTo(t) ==
    /\ proc.thr[t].pc = "open_to"
    /\ \E o \in {branch_open_creat(WT, TRUE,
                                   proc.thr[t].st.mode \ (S_ISVTX \cup S_ISUID \cup S_ISGID),
                                   branch_rw, <<proc.thr[t].path>>)} :
         IF o.res = -1
         THEN \E c \in {K_close(o.w, proc.thr[t].from_fd)} :
                StepT(t, c.w, [proc.thr[t] EXCEPT !.pc = "done", !.res = 1])
         ELSE IF St_size(proc.thr[t].st) > 0 /\ St_size(proc.thr[t].st) <= MmapLimit
         THEN \E d \in {copy_file_data(o.w, CowT(t), proc.thr[t].from_fd, o.res)} :
                StepT(t, d.w, [proc.thr[t] EXCEPT !.pc = "done", !.to_fd = o.res,
                                                  !.res = d.res])
         ELSE StepT(t, o.w, [proc.thr[t] EXCEPT !.pc = "read", !.to_fd = o.res])

\* rcount = read(from_fd, buf, MAXBSIZE) into the static buffer
T_Read(t) ==
    /\ proc.thr[t].pc = "read"
    /\ \E r \in {K_read(WT, proc.thr[t].from_fd, MAXBSIZE)} :
         /\ fs' = r.w.fs
         /\ proc' = [proc EXCEPT
                !.open = r.w.open,
                !.buf = r.buf \o SubSeq(@, Len(r.buf) + 1, Len(@)),
                !.thr[t] = [@ EXCEPT !.rcount = r.res,
                                     !.res = IF r.res < 0 THEN 1 ELSE @,
                                     !.pc = IF r.res > 0 THEN "write"
                                            ELSE IF r.res < 0 THEN "done"
                                            ELSE "setfile"]]
         /\ UNCHANGED <<cow_enabled, at_family, hid, last>>

\* wcount = write(to_fd, buf, rcount) from the static buffer
T_Write(t) ==
    /\ proc.thr[t].pc = "write"
    /\ \E wr \in {K_write(WT, proc.thr[t].to_fd, SubSeq(proc.buf, 1, proc.thr[t].rcount))} :
         IF proc.thr[t].rcount # wr.res \/ wr.res = -1
         THEN StepT(t, wr.w, [proc.thr[t] EXCEPT !.pc = "setfile", !.rval = 1])
         ELSE StepT(t, wr.w, [proc.thr[t] EXCEPT !.pc = "read"])

\* copy_file from "if (rval == 1)" to its return
T_Setfile(t) ==
    /\ proc.thr[t].pc = "setfile"
    /\ \E r \in {copy_file_finish(WT, CowT(t), proc.thr[t].from_fd, proc.thr[t].to_fd,
                                  proc.thr[t].rval)} :
         StepT(t, r.w, [proc.thr[t] EXCEPT !.pc = "done", !.res = r.res])

NextT ==
    \E t \in Threads :
        \/ T_PathCreate(t)
        \/ T_Umask0(t)
        \/ T_Umask(t)
        \/ T_Lstat(t)
        \/ T_OpenFrom(t)
        \/ T_OpenTo(t)
        \/ T_Read(t)
        \/ T_Write(t)
        \/ T_Setfile(t)

SpecT == InitT /\ [][NextT]_vars

----------------------------------------------------------------------------
(* Properties of the whiteout store *)

is_hidden(path, b) == filedir_hidden(W0, path, b).res
is_hidden_next(path, b) == filedir_hidden(World(fs', NoFault), path, b).res

\* the marker of path: <METADIR><path><HIDETAG>
MarkerKey(path) == K(METADIR \o path \o HIDETAG)

\* path is a leading sequence of the path components of child
IsLeading(path, child) ==
    /\ Len(K(path)) <= Len(K(child))
    /\ SubSeq(K(child), 1, Len(K(path))) = K(path)

RECURSIVE PrefixStr(_, _)
PrefixStr(comps, n) ==
    IF n = 0 THEN <<>> ELSE PrefixStr(comps, n - 1) \o <<Slash>> \o comps[n]

\* the prefixes of a path that end at a component boundary, shortest first
PrefixesOf(path) ==
    IF K(path) = <<>> THEN <<path>>
    ELSE [i \in 1 .. Len(K(path)) |-> PrefixStr(K(path), i)]

Buildable(parts) == va_build_path(PATHLEN_MAX, 0, parts).res = 0

\* C1: with COW enabled, a path hidden with success on a branch and not
\* removed since is hidden there, and so is every path below it, marker or not
C1_HiddenCoversChildren ==
    cow_enabled =>
        \A h \in hid :
            /\ is_hidden(h[1], h[2])
            /\ \A child \in QueryPaths :
                   IsLeading(h[1], child) => path_hidden(W0, child, h[2]).res

C1_Witness ==
    /\ cow_enabled
    /\ last.op = "hide_dir" /\ last.res = 0 /\ last.path = P_a /\ last.branch = 0
    /\ <<P_a, 0>> \in hid
    /\ ~is_hidden(P_ab, 0) /\ ~is_hidden(P_aba, 0)
    /\ path_hidden(W0, P_aba, 0).res

\* C2: with COW enabled, path_hidden answers true exactly when one of the
\* component prefixes of the path (the path included) is hidden, and it probes
\* the prefixes from the shortest on and stops at the first one hidden
C2_PathHiddenIffPrefix ==
    (cow_enabled /\ last.op = "path_hidden") =>
        LET pre   == PrefixesOf(last.path)
            hits  == {i \in 1 .. Len(pre) : is_hidden(pre[i], last.branch)}
            upto  == IF hits = {} THEN Len(pre)
                     ELSE CHOOSE i \in hits : \A j \in hits : i <= j
            tried == SelectSeq([i \in 1 .. upto |-> pre[i]],
                               LAMBDA q : Buildable(<<METADIR, q, HIDETAG>>))
        IN  /\ last.bres = (hits # {})
            /\ last.log = [i \in 1 .. Len(tried) |->
                              [op |-> "lstat", branch |-> last.branch,
                               key |-> MarkerKey(tried[i])]]

C2_Witness ==
    /\ cow_enabled /\ last.op = "path_hidden" /\ last.path = P_aba /\ last.branch = 0
    /\ last.bres
    /\ ~is_hidden(P_a, 0) /\ is_hidden(P_ab, 0)
    /\ Len(last.log) = 2

\* C3: with COW disabled, hide_file and hide_dir return 0 and change no branch
C3_HideIsNoopWithoutCow ==
    [][(~cow_enabled /\ last'.op \in {"hide_file", "hide_dir"}) =>
          (last'.res = 0 /\ fs' = fs)]_vars

MaybeWhiteoutContract ==
    last'.op = "maybe_whiteout" =>
        /\ last'.found = -1 => (fs' = fs /\ last'.res = 0)
        /\ (last'.found # -1 /\ last'.res = 0) =>
              /\ path_hidden(World(fs', NoFault), last'.path, last'.branch).res
              /\ MarkerKey(last'.path) \in DOMAIN fs'[last'.branch]
              /\ fs'[last'.branch][MarkerKey(last'.path)].type
                    = (IF last'.arg = 0 THEN "reg" ELSE "dir")

\* C4 as stated: maybe_whiteout changes nothing and returns 0 when the path
\* resolves on no branch; otherwise, after a call that returned 0, the path is
\* hidden on the branch and the marker has the kind passed
C4_MaybeWhiteoutAsStated == [][MaybeWhiteoutContract]_vars

\* C4, amended: the same with COW enabled
C4_MaybeWhiteout == [][cow_enabled => MaybeWhiteoutContract]_vars

C4_Witness ==
    /\ cow_enabled /\ last.op = "maybe_whiteout" /\ last.found # -1 /\ last.res = 0
    /\ last.arg = 1
    /\ fs[last.branch][MarkerKey(last.path)].type = "dir"
    /\ path_hidden(W0, last.path, last.branch).res

Covered(maxbranch) == IF maxbranch = -1 THEN Branches ELSE 0 .. maxbranch

\* C5: with COW enabled, remove_hidden(path, max_branch) returns 0, leaves path
\* not hidden on every branch it covers, and changes nothing but the markers
\* of path on those branches
C5_RemoveHidden ==
    [][(cow_enabled /\ last'.op = "remove_hidden") =>
          /\ ~last'.crashed /\ last'.res = 0
          /\ \A b \in Covered(last'.arg) : ~is_hidden_next(last'.path, b)
          /\ \A b \in Branches :
                /\ DOMAIN fs'[b] \subseteq DOMAIN fs[b]
                /\ \A k \in DOMAIN fs[b] :
                      IF k = MarkerKey(last'.path) /\ b \in Covered(last'.arg)
                      THEN k \notin DOMAIN fs'[b]
                      ELSE k \in DOMAIN fs'[b] /\ fs'[b][k] = fs[b][k]]_vars

\* the part of C5 that does not depend on the loop leaving the stack
RemoveHiddenInStack ==
    [][(cow_enabled /\ last'.op = "remove_hidden" /\ last'.arg # -1) =>
          /\ ~last'.crashed /\ last'.res = 0
          /\ \A b \in Covered(last'.arg) : ~is_hidden_next(last'.path, b)
          /\ \A b \in Branches :
                /\ DOMAIN fs'[b] \subseteq DOMAIN fs[b]
                /\ \A k \in DOMAIN fs[b] :
                      IF k = MarkerKey(last'.path) /\ b \in Covered(last'.arg)
                      THEN k \notin DOMAIN fs'[b]
                      ELSE k \in DOMAIN fs'[b] /\ fs'[b][k] = fs[b][k]]_vars

----------------------------------------------------------------------------
(* Properties of the COW engine *)

Range(f) == {f[i] : i \in DOMAIN f}

\* the indices of the log of the last call whose entry satisfies Test
Where(Test(_)) == {i \in DOMAIN last.log : Test(last.log[i])}

\* C6: path_create is idempotent: after a path_create(path, ro, rw) that
\* returned 0, a second one with the same arguments returns 0, makes no
\* directory and leaves the branches as they are
C6_PathCreateIdempotent ==
    [][(/\ last.op = "path_create" /\ last.res = 0
        /\ last'.op = "path_create" /\ last'.path = last.path /\ last'.arg = last.arg
        /\ last'.fault = NoFault)
          => (/\ last'.res = 0
              /\ \A e \in Range(last'.log) : e.op # "mkdir"
              /\ fs' = fs)]_vars

C6_Witness ==
    /\ last.op = "path_create" /\ last.path = P_aa /\ last.arg = branch_ro
    /\ last.prev = [op |-> "path_create", path |-> P_aa, arg |-> branch_ro, res |-> 0]
    /\ last.fault = NoFault /\ last.res = 0
    /\ IsDir(W0, branch_rw, K(P_a)) /\ IsDir(W0, branch_rw, K(P_aa))
    /\ \A e \in Range(last.log) : e.op # "mkdir"

\* the events of a promotion of last.path
IsSourceStat(e) == e = [op |-> "lstat", branch |-> branch_ro, key |-> K(last.path)]
IsParentCreate(e) ==
    /\ e.branch = branch_rw
    /\ e.op \in {"mkdir", "utimens", "chown", "chmod"}
    /\ Len(e.key) < Len(K(last.path))
    /\ e.key = SubSeq(K(last.path), 1, Len(e.key))
IsDestWrite(e) ==
    /\ e.branch = branch_rw /\ e.key = K(last.path)
    /\ e.op \in {"open_creat", "write", "symlink", "mkfifo", "mknod", "mkdir"}
IsDestMeta(e) ==
    /\ e.branch = branch_rw /\ e.key = K(last.path)
    /\ e.op \in {"utimens", "chown", "lchown", "chmod", "fchmod"}

StepFailed == last.fault # NoFault /\ last.fault \in Range(last.log)

\* C8: cow_cp returns non-zero whenever one of its steps failed, the creation
\* of a parent directory included
C8_ErrorsReported == (last.op = "cow_cp" /\ StepFailed) => last.res # 0

\* the node of the source of the last promotion
SourceIs(type) ==
    /\ K(last.path) \in DOMAIN fs[branch_ro]
    /\ fs[branch_ro][K(last.path)].type = type

\* C9: cow_cp of a socket returns non-zero without a step after the lstat of
\* the source, and nothing exists at the path on the read-write branch
C9_SocketRefused ==
    (last.op = "cow_cp" /\ SourceIs("sock") /\ last.fault = NoFault) =>
        /\ last.res # 0
        /\ K(last.path) \notin DOMAIN fs[branch_rw]
        /\ IsSourceStat(last.log[Len(last.log)])
        /\ \A e \in Range(last.log) : ~IsDestWrite(e) /\ ~IsDestMeta(e)

C9_Witness ==
    /\ last.op = "cow_cp" /\ last.path = P_b /\ SourceIs("sock") /\ last.fault = NoFault
    /\ last.res = 1
    /\ K(P_b) \notin DOMAIN fs[branch_rw]

C11_DescriptorsClosed == last.op = "cow_cp" => last.open = {}

\* source and destination of the last promotion
Src == fs[branch_ro][K(last.path)]
Dst == fs[branch_rw][K(last.path)]
Promoted(type) == last.op = "cow_cp" /\ SourceIs(type) /\ K(last.path) \in DOMAIN fs[branch_rw]

SuidBits == S_ISUID \cup S_ISGID

\* C12 as stated: after cow_cp of a regular file the destination has setuid
\* or setgid bits only if the source uid is the acting uid and the
\* destination gid is the source gid
C12_SuidAsStated ==
    Promoted("reg") =>
        ((Dst.mode \cap SuidBits) # {} => (Src.uid = proc.uid /\ Dst.gid = Src.gid))

\* C12, amended: after cow_cp of a regular file the destination has setuid
\* or setgid bits only if it has the owner and the group of the source (the
\* chown to them was permitted), and then only bits that the source has
C12_SuidOnlyWithOwner ==
    Promoted("reg") =>
        ((Dst.mode \cap SuidBits) # {} =>
            /\ Dst.uid = Src.uid /\ Dst.gid = Src.gid
            /\ (Dst.mode \cap SuidBits) \subseteq Src.mode)

C12_Witness ==
    /\ Promoted("reg") /\ last.res = 0
    /\ proc.uid = 0 /\ Src.uid = 2
    /\ (Dst.mode \cap SuidBits) = SuidBits
    /\ Dst.uid = 2 /\ Dst.gid = Src.gid

\* the leaves promoted so far, and the nodes of a leaf on the two branches
OnRW(p) == K(p) \in DOMAIN fs[branch_rw]
SrcOf(p) == fs[branch_ro][K(p)]
DstOf(p) == fs[branch_rw][K(p)]

\* every directory above p exists on the read-write branch
ParentsMade(p) ==
    \A n \in 0 .. (Len(K(p)) - 1) : IsDir(W0, branch_rw, SubSeq(K(p), 1, n))

\* C13 as stated: every leaf promoted with success matches its source in
\* structure, content or target, type, owner, group, mtime and rwx mode bits
C13_TreeAsStated ==
    \A p \in PromotePaths :
        OnRW(p) =>
            /\ ParentsMade(p)
            /\ DstOf(p).type = SrcOf(p).type
            /\ DstOf(p).data = SrcOf(p).data
            /\ DstOf(p).uid = SrcOf(p).uid /\ DstOf(p).gid = SrcOf(p).gid
            /\ DstOf(p).mtime = SrcOf(p).mtime
            /\ (DstOf(p).mode \cap AllPerms) = (SrcOf(p).mode \cap AllPerms)

\* the acting user may give the copy the owner and group of the source
MayChown(st) == proc.uid = 0 \/ (st.uid = proc.uid /\ st.gid = proc.gid)

\* copy_file re-applies the mode of the source less the umask
Reapplied(st) ==
    /\ st.type = "reg" /\ MayChown(st)
    /\ (st.mode \cap SuidBits) # {} /\ st.uid = proc.uid

\* C13, amended: every leaf promoted with success matches its source in
\* structure, type and content or target; in owner and group when the acting
\* user may chown to them, and belongs to the acting user otherwise; in mtime
\* unless it is a symbolic link; in the rwx mode bits unless it is a symbolic
\* link, less the umask where copy_file re-applies the mode
C13_TreeMatches ==
    \A p \in PromotePaths :
        OnRW(p) =>
            /\ ParentsMade(p)
            /\ DstOf(p).type = SrcOf(p).type
            /\ DstOf(p).data = SrcOf(p).data
            /\ IF MayChown(SrcOf(p))
               THEN DstOf(p).uid = SrcOf(p).uid /\ DstOf(p).gid = SrcOf(p).gid
               ELSE DstOf(p).uid = proc.uid /\ DstOf(p).gid = proc.gid
            /\ SrcOf(p).type # "lnk" =>
                  /\ DstOf(p).mtime = SrcOf(p).mtime
                  /\ (DstOf(p).mode \cap AllPerms) =
                        (SrcOf(p).mode \cap AllPerms)
                           \ (IF Reapplied(SrcOf(p)) THEN proc.umask ELSE {})

C13_Witness ==
    /\ last.op = "cow_cp" /\ last.res = 0 /\ last.path = P_b
    /\ last.prev = [op |-> "cow_cp", path |-> P_aab, arg |-> branch_ro, res |-> 0]
    /\ proc.uid = 0
    /\ OnRW(P_b) /\ DstOf(P_b).data = SrcOf(P_b).data /\ DstOf(P_b).mtime # SrcOf(P_b).mtime
    /\ OnRW(P_aab) /\ DstOf(P_aab).uid = 2 /\ DstOf(P_aab).mtime = SrcOf(P_aab).mtime

\* the last promotion follows a successful promotion of the same path
Repeated ==
    /\ last.op = "cow_cp"
    /\ last.prev = [op |-> "cow_cp", path |-> last.path, arg |-> branch_ro, res |-> 0]

SupportedTypes == {"reg", "lnk", "fifo", "chr", "blk"}

\* C16: a promotion of a regular file, symbolic link, fifo or device over the
\* object an earlier promotion of the same path has left on the read-write
\* branch succeeds
C16_RepeatSucceeds ==
    (Repeated /\ \E t \in SupportedTypes : SourceIs(t)) => last.res = 0

\* C19: every branch that remove_hidden probes or removes from is a branch
\* of the stack, 0 .. nbranches - 1
C19_BranchesInStack ==
    last.op = "remove_hidden" => \A e \in Range(last.log) : e.branch \in Branches

\* the component prefixes of a path, as keys of a branch
KeyPrefixes(path) == {SubSeq(K(path), 1, i) : i \in 1 .. Len(K(path))}

\* C20: when path_create has returned 0 with COW enabled, every component
\* prefix of the path exists on the read-write branch
C20_PrefixesExist ==
    (last.op = "path_create" /\ cow_enabled /\ last.res = 0) =>
        \A k \in KeyPrefixes(last.path) : k \in DOMAIN fs[branch_rw]

----------------------------------------------------------------------------
(* Properties of BranchIO *)

\* C14: an operation returns the same and leaves the same file system under
\* the handle backend and under the prefix backend
C14_BackendsAgree ==
    last.n = 3 => (last.out = last.twin.out /\ fs = last.twin.after)

RECURSIVE Concat(_)
Concat(parts) == IF parts = <<>> THEN <<>> ELSE Head(parts) \o Concat(Tail(parts))

\* the length of the path of the last operation, the branch root included
\* under the prefix backend
TotalLength == Len(Concat(last.parts)) + (IF at_family THEN 0 ELSE Len(RootPath))

\* the bytes va_build_path has written for the last operation, the
\* terminator included
Written ==
    Len(va_build_path(PATHLEN_MAX, branch_rw, last.parts).path)
      + (IF va_build_path(PATHLEN_MAX, branch_rw, last.parts).res = 0 THEN 1 ELSE 0)

----------------------------------------------------------------------------
(* Properties of promotions in threads *)

AllReturned == \A t \in Threads : proc.thr[t].pc = "done"

\* C17: when the promotions of two large files in two threads have both
\* returned success, each destination holds the bytes of its own source
C17_ThreadsCopyOwnBytes ==
    (AllReturned /\ \A t \in Threads : proc.thr[t].res = 0) =>
        \A t \in Threads :
            /\ K(PathOf(t)) \in DOMAIN fs[branch_rw]
            /\ fs[branch_rw][K(PathOf(t))].data = fs[branch_ro][K(PathOf(t))].data

\* C18: when all promotions have returned the process umask is what it was
\* before the first, and so is the umask captured in each Cow job
C18_UmaskPreserved ==
    AllReturned =>
        /\ proc.umask = last.umask
        /\ \A t \in Threads : proc.thr[t].umask = last.umask

====
